---- MODULE Spec2Model ----
(***************************************************************************)
(* Routing state machine of the health-assistant graph (package src.agent):*)
(* the supervisor node, the six responder nodes and the session state they *)
(* thread through one turn.  One turn = one run of the graph from START.   *)
(* Spec is the graph run on any input of the State schema.  AppSpec is the *)
(* job layer of app/main.py driving a run of the graph that                *)
(* app/agent/graph.py compiles, the node functions being those of agent.py.*)
(*                                                                         *)
(* Python values are modelled as follows.                                  *)
(*   Optional[T]      None is <<>>, a present value v is <<v>>             *)
(*   str (HTML)       a sequence of tokens; "" is the empty sequence       *)
(*   dict (results)   a function whose DOMAIN is the set of keys           *)
(*   dict (context)   a set of <<key, value>> pairs                        *)
(*   Command.update   a record with one entry per state key: Absent when   *)
(*                    the key is not in the update, Set(v) when it is      *)
(***************************************************************************)
EXTENDS Integers, Sequences, FiniteSets, TLC

VARIABLES
    messages,   \* State.messages: the conversation log
    next,       \* State.next
    context,    \* State.context
    flow,       \* State.flow
    queue,      \* State.queue
    results,    \* State.results
    pc,         \* the node the graph runs next, END, or RAISED
    response,   \* the classifier's outcome at the last supervisor call
    trace,      \* history: the steps taken in this turn, in order
    nodes,      \* the nodes of the compiled graph
    events,     \* astream(stream_mode="values"): messages[-1].content per event
    request,    \* the caller's request: message and context
    jobs,       \* main.jobs
    job_id,     \* the job_id argument of the background task process_trip
    polled,     \* what the last call of get_result returned
    sessions,   \* per job of two concurrent requests: its task's run
    call        \* one call of a data-fetch tool: tool, outcomes, result

vars == <<messages, next, context, flow, queue, results, pc, response, trace,
          nodes, events, request, jobs, job_id, polled, sessions, call>>

----------------------------------------------------------------------------
(* Bounds *)

\* responder invocations allowed in one turn
MaxHops == 3

\* responder invocations allowed in the turn of a job
MaxJobHops == 2

----------------------------------------------------------------------------
(* Values *)

None == <<>>
Some(v) == <<v>>

Absent == <<>>
Set(v) == <<v>>

END == "__end__"
RAISED == "__raised__"
PHS == "personal_health_summary"
Unavailable == "__unavailable__"

Responders ==
    {"diet_planer_agent", "exercise_planer_agent", "health_centers_agent",
     "medication_agent", "symtoms_checker_agent", "air_quality_checker_agent"}

PlainResponders ==
    {"health_centers_agent", "medication_agent", "symtoms_checker_agent",
     "air_quality_checker_agent"}

\* Router.next
Labels == Responders \cup {"FINISH"}

\* what the structured-output call can produce: Router is a TypedDict, so
\* the reply is not validated against the Literal; the call can also raise
InvalidLabels == {"foo_agent"}

\* the last message content a responder's model can return
Fragments == {<<>>, <<"a">>, <<"b">>}

Contexts ==
    {None, Some({}),
     Some({<<"type", PHS>>}),
     Some({<<"type", PHS>>, <<"steps", "8000">>}),
     Some({<<"type", "journal">>}),
     Some({<<"steps", "8000">>})}

EmptyDict == [k \in {} |-> <<>>]

\* jobs = {}
NoJobs == [id \in {} |-> <<>>]

HumanMessage(content, name) == [content |-> content, name |-> name]

state ==
    [messages |-> messages, next |-> next, context |-> context,
     flow |-> flow, queue |-> queue, results |-> results]

----------------------------------------------------------------------------
(* Python helpers *)

\* bool(x) for Optional[str], Optional[list], Optional[dict-as-set]
TruthyStr(o) == o # None /\ o[1] # ""
TruthyList(o) == o # None /\ o[1] # <<>>
TruthyCtx(o) == o # None /\ o[1] # {}

\* d.get(k) on a context dict
CtxGet(d, k) ==
    IF \E p \in d : p[1] = k THEN Some((CHOOSE p \in d : p[1] = k)[2]) ELSE None

\* d.get(k, default) on a results dict
DictGet(d, k, default) == IF k \in DOMAIN d THEN d[k] ELSE default

\* d[k] = v
DictPut(d, k, v) == [x \in DOMAIN d \cup {k} |-> IF x = k THEN v ELSE d[x]]

\* state.get("results") or {}
ResultsOrEmpty(s) == IF s.results = None THEN EmptyDict ELSE s.results[1]

\* list(state.get("queue") or [])
QueueOrEmpty(s) == IF TruthyList(s.queue) THEN s.queue[1] ELSE <<>>

NoUpdate ==
    [messages |-> <<>>, flow |-> Absent, queue |-> Absent,
     results |-> Absent, next |-> Absent, context |-> Absent]

----------------------------------------------------------------------------
(* supervisor *)

IsPHSAnyType(s) ==
    LET ctx == IF TruthyCtx(s.context) THEN s.context[1] ELSE {}
    IN  CtxGet(ctx, "type") # None

IsPHS(s) ==
    LET ctx == IF TruthyCtx(s.context) THEN s.context[1] ELSE {}
    IN  CtxGet(ctx, "type") = Some(PHS)

BranchAlwaysInit(s) ==
    IF IsPHS(s) THEN "init" ELSE "classify"

BranchClassifyInFlow(s) ==
    IF IsPHS(s) /\ ~TruthyStr(s.flow) THEN "init"
    ELSE IF IsPHS(s) /\ ~TruthyList(s.queue) THEN "combine"
    ELSE "classify"

\* which return statement of supervisor() the state selects
Branch(s) ==
    IF IsPHS(s)
    THEN IF ~TruthyStr(s.flow) THEN "init"
         ELSE IF ~TruthyList(s.queue) THEN "combine"
         ELSE "dispatch"
    ELSE "classify"

InitNoFlow ==
    [goto |-> "diet_planer_agent",
     update |-> [NoUpdate EXCEPT !.queue = Set(Some(<<"exercise_planer_agent">>)),
                                 !.results = Set(Some(EmptyDict))]]

InitToExercise ==
    [goto |-> "exercise_planer_agent",
     update |-> [NoUpdate EXCEPT !.flow = Set(Some("phs")),
                                 !.queue = Set(Some(<<"diet_planer_agent">>)),
                                 !.results = Set(Some(EmptyDict))]]

InitCommand ==
    [goto |-> "diet_planer_agent",
     update |-> [NoUpdate EXCEPT !.flow = Set(Some("phs")),
                                 !.queue = Set(Some(<<"exercise_planer_agent">>)),
                                 !.results = Set(Some(EmptyDict))]]

CombinedSwapped(s) ==
    LET diet_html == DictGet(ResultsOrEmpty(s), "diet_planer_agent", <<>>)
        ex_html == DictGet(ResultsOrEmpty(s), "exercise_planer_agent", <<>>)
    IN  <<"<div class=personal-health-summary>",
          "<h2>Personal Health Summary</h2>",
          "<div class=phs-section>">> \o ex_html \o
        <<"</div>", "<div class=phs-section>">> \o diet_html \o
        <<"</div>", "</div>">>

Combined(s) ==
    LET diet_html == DictGet(ResultsOrEmpty(s), "diet_planer_agent", <<>>)
        ex_html == DictGet(ResultsOrEmpty(s), "exercise_planer_agent", <<>>)
    IN  <<"<div class=personal-health-summary>",
          "<h2>Personal Health Summary</h2>",
          "<div class=phs-section>">> \o diet_html \o
        <<"</div>", "<div class=phs-section>">> \o ex_html \o
        <<"</div>", "</div>">>

CombineCommand(s) ==
    [goto |-> END,
     update |-> [NoUpdate EXCEPT
                    !.messages = <<HumanMessage(Combined(s), Some("supervisor"))>>,
                    !.flow = Set(None),
                    !.queue = Set(None)]]

DispatchPop(s) ==
    [goto |-> Head(s.queue[1]),
     update |-> [NoUpdate EXCEPT !.queue = Set(Some(Tail(s.queue[1])))]]

DispatchCommand(s) ==
    [goto |-> Head(s.queue[1]), update |-> NoUpdate]

ClassifyNoEndMap(label) ==
    [goto |-> label, update |-> [NoUpdate EXCEPT !.next = Set(Some(label))]]

ClassifyCommand(label) ==
    LET goto == IF label = "FINISH" THEN END ELSE label
    IN  [goto |-> goto, update |-> [NoUpdate EXCEPT !.next = Set(Some(goto))]]

\* the Command supervisor() returns, label being the classifier's reply
supervisor(s, label) ==
    CASE Branch(s) = "init" -> InitCommand
      [] Branch(s) = "combine" -> CombineCommand(s)
      [] Branch(s) = "dispatch" -> DispatchCommand(s)
      [] OTHER -> ClassifyCommand(label)

----------------------------------------------------------------------------
(* responders *)

DietWritesContext(s, html) ==
    [goto |-> "supervisor",
     update |-> [NoUpdate EXCEPT
                    !.messages = <<HumanMessage(html, Some("diet_planer_agent"))>>,
                    !.context = Set(None)]]

DietWrongKey(s, html) ==
    LET updates == [NoUpdate EXCEPT
                      !.messages = <<HumanMessage(html, Some("diet_planer_agent"))>>]
    IN  [goto |-> "supervisor",
         update |->
            IF s.flow = Some("phs")
            THEN [updates EXCEPT
                    !.results = Set(Some(DictPut(ResultsOrEmpty(s),
                                                 "exercise_planer_agent", html))),
                    !.queue = Set(Some(QueueOrEmpty(s)))]
            ELSE updates]

DietAlwaysStores(s, html) ==
    [goto |-> "supervisor",
     update |-> [NoUpdate EXCEPT
                    !.messages = <<HumanMessage(html, Some("diet_planer_agent"))>>,
                    !.results = Set(Some(DictPut(ResultsOrEmpty(s),
                                                 "diet_planer_agent", html))),
                    !.queue = Set(Some(QueueOrEmpty(s)))]]

diet_planer_agent(s, html) ==
    LET updates == [NoUpdate EXCEPT
                      !.messages = <<HumanMessage(html, Some("diet_planer_agent"))>>]
    IN  [goto |-> "supervisor",
         update |->
            IF s.flow = Some("phs")
            THEN [updates EXCEPT
                    !.results = Set(Some(DictPut(ResultsOrEmpty(s),
                                                 "diet_planer_agent", html))),
                    !.queue = Set(Some(QueueOrEmpty(s)))]
            ELSE updates]

ExerciseNoPop(s, html) ==
    LET updates == [NoUpdate EXCEPT
                      !.messages = <<HumanMessage(html, Some("exercise_planer_agent"))>>]
    IN  [goto |-> "supervisor",
         update |->
            IF s.flow = Some("phs")
            THEN [updates EXCEPT
                    !.results = Set(Some(DictPut(ResultsOrEmpty(s),
                                                 "exercise_planer_agent", html))),
                    !.queue = Set(Some(QueueOrEmpty(s)))]
            ELSE updates]

exercise_planer_agent(s, html) ==
    LET updates == [NoUpdate EXCEPT
                      !.messages = <<HumanMessage(html, Some("exercise_planer_agent"))>>]
        q == QueueOrEmpty(s)
        popped == IF q # <<>> /\ q[1] = "exercise_planer_agent" THEN Tail(q) ELSE q
    IN  [goto |-> "supervisor",
         update |->
            IF s.flow = Some("phs")
            THEN [updates EXCEPT
                    !.results = Set(Some(DictPut(ResultsOrEmpty(s),
                                                 "exercise_planer_agent", html))),
                    !.queue = Set(Some(popped))]
            ELSE updates]

PlainAsSupervisor(name, html) ==
    [goto |-> "supervisor",
     update |-> [NoUpdate EXCEPT
                    !.messages = <<HumanMessage(html, Some("supervisor"))>>]]

PlainToEnd(name, html) ==
    [goto |-> END,
     update |-> [NoUpdate EXCEPT !.messages = <<HumanMessage(html, Some(name))>>]]

\* health_centers_agent, medication_agent, symtoms_checker_agent,
\* air_quality_checker_agent
plain_agent(name, html) ==
    [goto |-> "supervisor",
     update |-> [NoUpdate EXCEPT !.messages = <<HumanMessage(html, Some(name))>>]]

----------------------------------------------------------------------------
(* the graph runtime: state reducers and routing of Command.goto *)

Overwrite(old, new) == IF new = <<>> THEN old ELSE new

\* MessagesState: the messages channel appends
AddMessages(old, new) == old \o new

\* every other key of State: the last value written wins
LastValue(old, p) == IF p = Absent THEN old ELSE p[1]

\* where the graph goes on Command.goto; a goto that names no node is
\* either dropped (the run ends) or rejected (the run raises)
Nodes == Responders \cup {"supervisor"}

\* app/agent/graph.py: the nodes that graph registers
GraphNodes ==
    {"supervisor", "diet_planer_agent", "health_centers_agent",
     "medication_agent", "symtoms_checker_agent", "air_quality_checker_agent"}

Route(goto) ==
    IF goto \in nodes \cup {END} THEN {goto} ELSE {END, RAISED}

Hops == Len(SelectSeq(trace, LAMBDA t : t \in Responders))

HopLimit == IF job_id = None THEN MaxHops ELSE MaxJobHops

\* one node returns cmd
Step(cmd, label, resp) ==
    /\ trace' = Append(trace, label)
    /\ response' = resp
    /\ \E p \in Route(cmd.goto) :
        /\ pc' = p
        /\ IF p = RAISED
           THEN UNCHANGED <<messages, next, context, flow, queue, results, events>>
           ELSE /\ messages' = AddMessages(messages, cmd.update.messages)
                /\ flow' = LastValue(flow, cmd.update.flow)
                /\ queue' = LastValue(queue, cmd.update.queue)
                /\ results' = LastValue(results, cmd.update.results)
                /\ next' = LastValue(next, cmd.update.next)
                /\ context' = LastValue(context, cmd.update.context)
                /\ events' = Append(events, messages'[Len(messages')].content)
    /\ UNCHANGED <<nodes, request, jobs, job_id, polled, sessions, call>>

\* one node raises: the run stops and no update is written
Raise(label, resp) ==
    /\ trace' = Append(trace, label)
    /\ response' = resp
    /\ pc' = RAISED
    /\ UNCHANGED <<messages, next, context, flow, queue, results, events>>
    /\ UNCHANGED <<nodes, request, jobs, job_id, polled, sessions, call>>

----------------------------------------------------------------------------
(* Specification *)

Init ==
    /\ messages = <<HumanMessage(<<"q">>, None)>>
    /\ next = None
    /\ context \in Contexts
    /\ flow = None
    /\ queue = None
    /\ results = None
    /\ pc = "supervisor"
    /\ response = None
    /\ trace = <<>>
    /\ nodes = Nodes
    /\ events = <<<<"q">>>>
    /\ request = [message |-> <<"q">>, context |-> context]
    /\ jobs = NoJobs
    /\ job_id = None
    /\ polled = None
    /\ sessions = None
    /\ call = None

SupervisorInit ==
    /\ pc = "supervisor"
    /\ Branch(state) = "init"
    /\ Step(InitCommand, "supervisor:init", response)

SupervisorCombine ==
    /\ pc = "supervisor"
    /\ Branch(state) = "combine"
    /\ Step(CombineCommand(state), "supervisor:combine", response)

SupervisorDispatch ==
    /\ pc = "supervisor"
    /\ Branch(state) = "dispatch"
    /\ Hops < HopLimit
    /\ Step(DispatchCommand(state), "supervisor:dispatch", response)

SupervisorClassify ==
    /\ pc = "supervisor"
    /\ Branch(state) = "classify"
    /\ \E label \in Labels \cup InvalidLabels :
        /\ label \in Responders => Hops < HopLimit
        /\ Step(ClassifyCommand(label), "supervisor:classify", Some(label))

SupervisorClassifierRaises ==
    /\ pc = "supervisor"
    /\ Branch(state) = "classify"
    /\ Raise("supervisor:classify", Some(Unavailable))

DietPlaner ==
    /\ pc = "diet_planer_agent"
    /\ \E html \in Fragments :
        Step(diet_planer_agent(state, html), pc, response)

ExercisePlaner ==
    /\ pc = "exercise_planer_agent"
    /\ \E html \in Fragments :
        Step(exercise_planer_agent(state, html), pc, response)

PlainResponder ==
    /\ pc \in PlainResponders
    /\ \E html \in Fragments :
        Step(plain_agent(pc, html), pc, response)

ResponderRaises ==
    /\ pc \in Responders
    /\ Raise(pc, response)

Next ==
    \/ SupervisorInit
    \/ SupervisorCombine
    \/ SupervisorDispatch
    \/ SupervisorClassify
    \/ SupervisorClassifierRaises
    \/ DietPlaner
    \/ ExercisePlaner
    \/ PlainResponder
    \/ ResponderRaises

Spec == Init /\ [][Next]_vars

\* every awaited call of a node returns or raises
LiveSpec == Spec /\ WF_vars(Next)

----------------------------------------------------------------------------
(* app/main.py: the job layer *)

\* uuid4 values the start endpoint can hand out
JobIds == {"j1"}

\* query.message
Messages == {<<>>, <<"q">>}

ProcessingJob == [status |-> "processing", response |-> None]

DoneJobTypo(evts) ==
    LET result == SelectSeq(evts, LAMBDA c : c # <<>>)
    IN  [status |-> "finished",
         response |-> Some(IF result # <<>> THEN result[Len(result)]
                           ELSE <<"No response.">>)]

\* result = the non-empty contents of the events; the job ends done
DoneJob(evts) ==
    LET result == SelectSeq(evts, LAMBDA c : c # <<>>)
    IN  [status |-> "done",
         response |-> Some(IF result # <<>> THEN result[Len(result)]
                           ELSE <<"No response.">>)]

ErrorJobAsDone == [status |-> "done", response |-> Some(<<"Error: ", "e">>)]

\* except Exception as e: f"Error: {str(e)}"
ErrorJob == [status |-> "error", response |-> Some(<<"Error: ", "e">>)]

NotFound == [status |-> "not_found", response |-> Some(<<"Invalid job ID.">>)]

get_result(id) == IF id \in DOMAIN jobs THEN jobs[id] ELSE NotFound

AppInit ==
    /\ request \in [message : Messages, context : Contexts]
    /\ jobs = NoJobs
    /\ job_id = None
    /\ polled = None
    /\ sessions = None
    /\ call = None
    /\ pc = "idle"
    /\ nodes = GraphNodes
    /\ messages = <<>>
    /\ events = <<>>
    /\ next = None
    /\ context = None
    /\ flow = None
    /\ queue = None
    /\ results = None
    /\ response = None
    /\ trace = <<>>

\* POST /start-plan-trip: TravelQuery keeps query.message only
StartTrip ==
    /\ pc = "idle"
    /\ \E id \in JobIds \ DOMAIN jobs :
        /\ jobs' = DictPut(jobs, id, ProcessingJob)
        /\ job_id' = Some(id)
    /\ pc' = "scheduled"
    /\ UNCHANGED <<messages, next, context, flow, queue, results, response,
                   trace, nodes, events, request, polled, sessions, call>>

\* process_trip opens the stream on {"messages": [HumanMessage(message)]}
ProcessTripStart ==
    /\ pc = "scheduled"
    /\ messages' = <<HumanMessage(request.message, None)>>
    /\ events' = <<request.message>>
    /\ pc' = "supervisor"
    /\ UNCHANGED <<next, context, flow, queue, results, response, trace,
                   nodes, request, jobs, job_id, polled, sessions, call>>

ProcessTripDone ==
    /\ pc = END
    /\ job_id # None
    /\ jobs' = DictPut(jobs, job_id[1], DoneJob(events))
    /\ pc' = "returned"
    /\ UNCHANGED <<messages, next, context, flow, queue, results, response,
                   trace, nodes, events, request, job_id, polled, sessions, call>>

ProcessTripError ==
    /\ pc = RAISED
    /\ job_id # None
    /\ jobs' = DictPut(jobs, job_id[1], ErrorJob)
    /\ pc' = "returned"
    /\ UNCHANGED <<messages, next, context, flow, queue, results, response,
                   trace, nodes, events, request, job_id, polled, sessions, call>>

\* GET /get-response/{job_id}
GetResult ==
    /\ \E id \in JobIds \cup {"unknown"} :
        polled' = Some([id |-> id, result |-> get_result(id)])
    /\ UNCHANGED <<messages, next, context, flow, queue, results, pc, response,
                   trace, nodes, events, request, jobs, job_id, sessions, call>>

AppNext ==
    \/ StartTrip
    \/ ProcessTripStart
    \/ SupervisorClassify
    \/ SupervisorClassifierRaises
    \/ DietPlaner
    \/ PlainResponder
    \/ ResponderRaises
    \/ ProcessTripDone
    \/ ProcessTripError
    \/ GetResult

AppSpec == AppInit /\ [][AppNext]_vars

\* the steps of the background task: the event loop runs a scheduled task,
\* and every awaited call returns or raises
TaskNext ==
    \/ ProcessTripStart
    \/ SupervisorClassify
    \/ SupervisorClassifierRaises
    \/ DietPlaner
    \/ PlainResponder
    \/ ResponderRaises
    \/ ProcessTripDone
    \/ ProcessTripError

\* get_result only reads jobs, so the polls are left out of the
\* specification under which the task's progress is checked
LiveAppNext == StartTrip \/ TaskNext

LiveAppSpec == AppInit /\ [][LiveAppNext]_vars /\ WF_vars(TaskNext)

----------------------------------------------------------------------------
(* tools.py: the data-fetch tools *)

\* records a provider query can return
MaxRecords == 2

\* what a call of a tool ends with: a returned value or a raised exception
ReturnList(n) == [kind |-> "return", type |-> "list", size |-> n, keys |-> {}]
ReturnDict(keys) == [kind |-> "return", type |-> "dict", size |-> 0, keys |-> keys]
Raises(exc) == [kind |-> "raise", type |-> exc, size |-> 0, keys |-> {}]

\* the outcomes of the external calls a tool makes
\*   client   pymongo.MongoClient(...): "ok" or "raises"
\*   query    collection.find / query.execute: "ok" or "raises"
\*   records  the number of records the query returns
\*   geocode  the LocationIQ reply: "ok", "empty" (no match) or "raises"
\*   http     requests.get + raise_for_status: "ok", "status" or "timeout"
\*   body     response.json(): the shape of the reply
Env(client, query, records, geocode, http, body) ==
    [client : client, query : query, records : records, geocode : geocode,
     http : http, body : body]

HealthCentersAppEnvs ==
    Env({"ok", "raises"}, {"ok", "raises"}, 0..MaxRecords,
        {"ok", "empty", "raises"}, {"-"}, {"-"})

HealthCentersEnvs ==
    Env({"ok"}, {"ok", "raises"}, 0..MaxRecords,
        {"ok", "empty", "raises"}, {"-"}, {"-"})

MedicationEnvs ==
    Env({"-"}, {"-"}, {0}, {"-"}, {"ok", "status", "timeout"},
        {"not_json", "no_results", "empty_results", "one_result"})

AirQualityEnvs ==
    Env({"-"}, {"-"}, {0}, {"-"}, {"ok", "status", "timeout"},
        {"not_json", "empty", "malformed", "observation"})

\* app/agent/tools.py get_geocode_locationiq: nothing is caught, and an
\* empty reply returns None, which the caller cannot unpack
app_get_geocode_locationiq(e) ==
    IF e.geocode = "ok" THEN "pair" ELSE "raises"

\* src/agent/tools.py get_geocode_locationiq: every path returns a pair
get_geocode_locationiq(e) == "pair"

\* app/agent/tools.py get_health_centers
app_get_health_centers(e) ==
    LET body ==
            IF e.client = "raises" THEN "except"
            ELSE IF e.query = "raises" THEN "except"
            ELSE IF e.records > 0 /\ app_get_geocode_locationiq(e) = "raises"
                 THEN "except"
            ELSE "return"
        \* finally: if client: client.close()
        client_bound == e.client = "ok"
    IN  IF ~client_bound THEN Raises("UnboundLocalError")
        ELSE IF body = "except" THEN ReturnList(0)
        ELSE ReturnList(e.records)

\* src/agent/tools.py get_health_centers
get_health_centers(e) ==
    IF e.query = "raises" THEN ReturnList(0)
    ELSE IF e.records = 0 THEN ReturnList(0)
    ELSE IF get_geocode_locationiq(e) = "pair" THEN ReturnList(e.records)
    ELSE ReturnList(0)

\* get_medication_info (the same code in both packages)
get_medication_info(e) ==
    IF e.http # "ok" \/ e.body = "not_json" THEN ReturnDict({"error"})
    ELSE IF e.body = "one_result" THEN ReturnDict({"openfda", "purpose"})
    ELSE ReturnDict({})

\* get_air_quality (the same code in both packages)
get_air_quality(e) ==
    IF e.http # "ok" \/ e.body \in {"not_json", "malformed"}
    THEN ReturnDict({"error"})
    ELSE IF e.body = "empty" THEN ReturnDict({"message"})
    ELSE ReturnDict({"area", "state", "latitude", "longitude", "pollutant",
                     "aqi", "category", "observed_date", "observed_hour",
                     "timezone"})

Pending(tool, envs) == {[tool |-> tool, env |-> e, ret |-> None] : e \in envs}

ToolInit ==
    /\ call \in Pending("app.get_health_centers", HealthCentersAppEnvs)
            \cup Pending("get_health_centers", HealthCentersEnvs)
            \cup Pending("get_medication_info", MedicationEnvs)
            \cup Pending("get_air_quality", AirQualityEnvs)
    /\ sessions = None
    /\ request = [message |-> <<>>, context |-> None]
    /\ jobs = NoJobs
    /\ job_id = None
    /\ polled = None
    /\ pc = "idle"
    /\ nodes = Nodes
    /\ messages = <<>>
    /\ events = <<>>
    /\ next = None
    /\ context = None
    /\ flow = None
    /\ queue = None
    /\ results = None
    /\ response = None
    /\ trace = <<>>

\* the pending call ends with ret
Returns(ret) ==
    /\ call.ret = None
    /\ call' = [call EXCEPT !.ret = Some(ret)]
    /\ UNCHANGED <<messages, next, context, flow, queue, results, pc, response,
                   trace, nodes, events, request, jobs, job_id, polled,
                   sessions>>

GetHealthCentersApp ==
    /\ call.tool = "app.get_health_centers"
    /\ Returns(app_get_health_centers(call.env))

GetHealthCenters ==
    /\ call.tool = "get_health_centers"
    /\ Returns(get_health_centers(call.env))

GetMedicationInfo ==
    /\ call.tool = "get_medication_info"
    /\ Returns(get_medication_info(call.env))

GetAirQuality ==
    /\ call.tool = "get_air_quality"
    /\ Returns(get_air_quality(call.env))

ToolNext ==
    \/ GetHealthCentersApp
    \/ GetHealthCenters
    \/ GetMedicationInfo
    \/ GetAirQuality

ToolSpec == ToolInit /\ [][ToolNext]_vars

----------------------------------------------------------------------------
(* app/main.py: two requests in flight at once *)

\* responder invocations allowed in the turn of each of two concurrent jobs
MaxConcHops == 1

\* the job ids start_trip handed out to the two requests
TaskIds == {"j1", "j2"}

\* the message of each request
TaskMessage(id) == IF id = "j1" THEN <<"q1">> ELSE <<"q2">>

\* the classifier replies enumerated for concurrent runs
ConcLabels == {"FINISH", "diet_planer_agent", "medication_agent", "foo_agent"}

\* the run of one request's task: where process_trip is, and the state of
\* its own invocation of the graph
Session(msg) ==
    [pc |-> "idle", message |-> msg, messages |-> <<>>, next |-> None,
     context |-> None, flow |-> None, queue |-> None, results |-> None,
     response |-> None, trace |-> <<>>, events |-> <<>>]

\* the State the nodes of a task's run see
SessionState(s) ==
    [messages |-> s.messages, next |-> s.next, context |-> s.context,
     flow |-> s.flow, queue |-> s.queue, results |-> s.results]

SessionHops(s) == Len(SelectSeq(s.trace, LAMBDA t : t \in Responders))

\* a node of the run returned cmd and the graph went to p
StepSession(s, cmd, label, resp, p) ==
    IF p = RAISED
    THEN [s EXCEPT !.trace = Append(@, label), !.response = resp, !.pc = RAISED]
    ELSE LET msgs == AddMessages(s.messages, cmd.update.messages)
         IN  [s EXCEPT !.trace = Append(@, label),
                       !.response = resp,
                       !.pc = p,
                       !.messages = msgs,
                       !.flow = LastValue(@, cmd.update.flow),
                       !.queue = LastValue(@, cmd.update.queue),
                       !.results = LastValue(@, cmd.update.results),
                       !.next = LastValue(@, cmd.update.next),
                       !.context = LastValue(@, cmd.update.context),
                       !.events = Append(@, msgs[Len(msgs)].content)]

WriteShared(id, s) == [i \in DOMAIN sessions |-> s]

\* each astream call runs on a state of its own: the graph is compiled
\* without a checkpointer
Write(id, s) == [sessions EXCEPT ![id] = s]

ConcInit ==
    /\ sessions = [id \in TaskIds |-> Session(TaskMessage(id))]
    /\ jobs = NoJobs
    /\ nodes = GraphNodes
    /\ call = None
    /\ request = [message |-> <<>>, context |-> None]
    /\ job_id = None
    /\ polled = None
    /\ pc = "idle"
    /\ messages = <<>>
    /\ events = <<>>
    /\ next = None
    /\ context = None
    /\ flow = None
    /\ queue = None
    /\ results = None
    /\ response = None
    /\ trace = <<>>

ConcFrame ==
    UNCHANGED <<messages, next, context, flow, queue, results, pc, response,
                trace, nodes, events, request, job_id, polled, call>>

ConcStartTrip ==
    \E id \in TaskIds :
        /\ sessions[id].pc = "idle"
        /\ jobs' = DictPut(jobs, id, ProcessingJob)
        /\ sessions' = Write(id, [sessions[id] EXCEPT !.pc = "scheduled"])
        /\ ConcFrame

ConcProcessTripStart ==
    \E id \in TaskIds :
        /\ sessions[id].pc = "scheduled"
        /\ sessions' = Write(id,
                [sessions[id] EXCEPT
                    !.messages = <<HumanMessage(sessions[id].message, None)>>,
                    !.events = <<sessions[id].message>>,
                    !.pc = "supervisor"])
        /\ UNCHANGED jobs
        /\ ConcFrame

ConcSupervisor ==
    \E id \in TaskIds, label \in ConcLabels :
        LET s == sessions[id]
            cmd == supervisor(SessionState(s), label)
        IN  /\ s.pc = "supervisor"
            /\ label \in Responders => SessionHops(s) < MaxConcHops
            /\ \E p \in Route(cmd.goto) :
                sessions' = Write(id,
                    StepSession(s, cmd, "supervisor:classify", Some(label), p))
            /\ UNCHANGED jobs
            /\ ConcFrame

ConcSupervisorRaises ==
    \E id \in TaskIds :
        LET s == sessions[id]
        IN  /\ s.pc = "supervisor"
            /\ sessions' = Write(id,
                    StepSession(s, [goto |-> RAISED, update |-> NoUpdate],
                                "supervisor:classify", Some(Unavailable), RAISED))
            /\ UNCHANGED jobs
            /\ ConcFrame

ConcResponder ==
    \E id \in TaskIds, html \in Fragments :
        LET s == sessions[id]
            cmd == IF s.pc = "diet_planer_agent"
                   THEN diet_planer_agent(SessionState(s), html)
                   ELSE plain_agent(s.pc, html)
        IN  /\ s.pc \in Responders
            /\ \E p \in Route(cmd.goto) :
                sessions' = Write(id, StepSession(s, cmd, s.pc, s.response, p))
            /\ UNCHANGED jobs
            /\ ConcFrame

ConcResponderRaises ==
    \E id \in TaskIds :
        LET s == sessions[id]
        IN  /\ s.pc \in Responders
            /\ sessions' = Write(id,
                    StepSession(s, [goto |-> RAISED, update |-> NoUpdate],
                                s.pc, s.response, RAISED))
            /\ UNCHANGED jobs
            /\ ConcFrame

ConcProcessTripDone ==
    \E id \in TaskIds :
        /\ sessions[id].pc = END
        /\ jobs' = DictPut(jobs, id, DoneJob(sessions[id].events))
        /\ sessions' = Write(id, [sessions[id] EXCEPT !.pc = "returned"])
        /\ ConcFrame

ConcProcessTripError ==
    \E id \in TaskIds :
        /\ sessions[id].pc = RAISED
        /\ jobs' = DictPut(jobs, id, ErrorJob)
        /\ sessions' = Write(id, [sessions[id] EXCEPT !.pc = "returned"])
        /\ ConcFrame

ConcNext ==
    \/ ConcStartTrip
    \/ ConcProcessTripStart
    \/ ConcSupervisor
    \/ ConcSupervisorRaises
    \/ ConcResponder
    \/ ConcResponderRaises
    \/ ConcProcessTripDone
    \/ ConcProcessTripError

ConcSpec == ConcInit /\ [][ConcNext]_vars

----------------------------------------------------------------------------
(* Properties *)

Last(seq) == seq[Len(seq)]

IsPrefix(a, b) == Len(a) <= Len(b) /\ SubSeq(b, 1, Len(a)) = a

Count(seq, x) == Len(SelectSeq(seq, LAMBDA t : t = x))

\* the responders invoked so far in this turn, in order
Invoked == SelectSeq(trace, LAMBDA t : t \in Responders)

\* the content of the record a responder appended to the log
Appended(name) ==
    messages[CHOOSE i \in 1..Len(messages) : messages[i].name = Some(name)].content

Cleared(o, empty) == o = None \/ o = Some(empty)

\* C1: in a turn whose context has type personal_health_summary the
\* responders invoked are, at every moment, a prefix of [diet, exercise],
\* and when the turn has ended they are exactly [diet, exercise]; the
\* classifier has no part in it.
C1_PhsSequence ==
    IsPHS(state) =>
        /\ IsPrefix(Invoked, <<"diet_planer_agent", "exercise_planer_agent">>)
        /\ pc = END => Invoked = <<"diet_planer_agent", "exercise_planer_agent">>
        /\ response = None

C1_Witness ==
    /\ IsPHS(state)
    /\ pc = END
    /\ Invoked = <<"diet_planer_agent", "exercise_planer_agent">>

\* C2: when the flow completes, the last record of the log is the
\* supervisor's, and its content is the wrapping container holding the
\* fragment the diet responder appended followed by the fragment the
\* exercise responder appended.
C2_ComposedRecord ==
    (pc = END /\ Count(trace, "supervisor:combine") > 0) =>
        Last(messages) =
            [name |-> Some("supervisor"),
             content |->
                <<"<div class=personal-health-summary>",
                  "<h2>Personal Health Summary</h2>",
                  "<div class=phs-section>">>
                \o Appended("diet_planer_agent")
                \o <<"</div>", "<div class=phs-section>">>
                \o Appended("exercise_planer_agent")
                \o <<"</div>", "</div>">>]

C2_Witness ==
    /\ pc = END
    /\ Count(trace, "supervisor:combine") > 0
    /\ Appended("diet_planer_agent") = <<"a">>
    /\ Appended("exercise_planer_agent") = <<"b">>

\* C3: the queue is non-empty only if flow is set.
C3_QueueOnlyInFlow == TruthyList(queue) => TruthyStr(flow)

C3_Witness ==
    /\ TruthyList(queue)
    /\ TruthyStr(flow)
    /\ Invoked = <<"diet_planer_agent">>

\* C4: the supervisor step that clears flow leaves flow, queue and results
\* all cleared.
C4_ClearedTogether ==
    [][(pc = "supervisor" /\ TruthyStr(flow) /\ ~TruthyStr(flow')) =>
            /\ Cleared(queue', <<>>)
            /\ Cleared(results', EmptyDict)]_vars

\* C5: when the classifier returns a label outside the seven valid labels,
\* or is unavailable, the supervisor step fails the turn: no responder is
\* routed to, the turn does not end as if it had finished, and the log,
\* flow, queue and results are unchanged.
C5_RoutingError ==
    [][(pc = "supervisor" /\ Len(trace') > Len(trace)
            /\ Last(trace') = "supervisor:classify"
            /\ response'[1] \notin Labels) =>
            /\ pc' = RAISED
            /\ messages' = messages
            /\ flow' = flow /\ queue' = queue /\ results' = results]_vars

\* C6: flow initialization fires exactly once in a personal_health_summary
\* turn: it is the first step of the turn, it never fires while flow is set,
\* and it never fires a second time, also not after flow has been cleared.
C6_InitOnce ==
    /\ [](Count(trace, "supervisor:init") <= 1)
    /\ []((IsPHS(state) /\ trace # <<>>) =>
            (trace[1] = "supervisor:init" /\ Count(trace, "supervisor:init") = 1))
    /\ [][(Len(trace') > Len(trace) /\ Last(trace') = "supervisor:init") =>
            (~TruthyStr(flow) /\ trace = <<>>)]_vars

C6_Witness ==
    /\ Count(trace, "supervisor:init") = 1
    /\ Count(trace, "supervisor:combine") = 1
    /\ flow = None
    /\ IsPHS(state)

\* C7: a supervisor step taken while flow is set does not invoke the
\* classifier.
C7_NoClassifierInFlow ==
    [][(pc = "supervisor" /\ TruthyStr(flow)) =>
            /\ response' = response
            /\ Len(trace') > Len(trace) => Last(trace') # "supervisor:classify"]_vars

C7_Witness ==
    /\ TruthyStr(flow)
    /\ Len(trace) >= 3
    /\ trace[3] = "supervisor:dispatch"
    /\ response = None

\* C8: a responder step that returns routes to the supervisor, never to END
\* and never to a responder (the only other outcome of a responder step is
\* that it raises); the turn ends only by a supervisor step.
C8_BackToSupervisor ==
    /\ [][(pc \in Responders) => (pc' \in {"supervisor", RAISED})]_vars
    /\ [][(pc' = END) => (pc \in {"supervisor", END})]_vars

C8_Witness ==
    /\ pc = "supervisor"
    /\ Len(Invoked) = MaxHops
    /\ Last(trace) \in PlainResponders

\* C9: a supervisor step taken while flow is set ends the turn only as the
\* flow-completion transition (empty queue, composed supervisor record
\* appended, flow cleared), and a turn that started the flow and has ended
\* has the supervisor's composed record as its last log record.
C9_OnlyExit ==
    /\ [][(pc = "supervisor" /\ TruthyStr(flow) /\ pc' = END) =>
            /\ ~TruthyList(queue)
            /\ Len(messages') = Len(messages) + 1
            /\ Last(messages').name = Some("supervisor")
            /\ flow' = None]_vars
    /\ []((pc = END /\ Count(trace, "supervisor:init") > 0) =>
            (Last(trace) = "supervisor:combine"
                /\ Last(messages).name = Some("supervisor")))

C9_Witness ==
    /\ pc = END
    /\ Count(trace, "supervisor:init") > 0
    /\ Last(trace) = "supervisor:combine"
    /\ Len(messages) = 4

\* C10: every step leaves the old log as a prefix of the new log and
\* appends at most one record.
C10_AppendOnly ==
    [][IsPrefix(messages, messages') /\ Len(messages') <= Len(messages) + 1]_vars

C10_Witness ==
    /\ Len(Invoked) = MaxHops
    /\ Len(messages) = MaxHops + 1
    /\ messages[1] = HumanMessage(<<"q">>, None)
    /\ \A i \in 2..Len(messages) : messages[i].name = Some(Invoked[i - 1])

\* the context is a dict whose "type" entry is personal_health_summary
TypeIsPHS(c) == c # None /\ <<"type", PHS>> \in c[1]

SupervisorSteps ==
    {"supervisor:init", "supervisor:combine", "supervisor:dispatch",
     "supervisor:classify"}

\* the step just taken is the supervisor step labelled l
Took(l) == pc = "supervisor" /\ Len(trace') > Len(trace) /\ Last(trace') = l

\* the indices of the log records appended by responders
ResponderRecords ==
    {i \in 1..Len(messages) :
        messages[i].name # None /\ messages[i].name[1] \in Responders}

MaxOf(S) == CHOOSE m \in S : \A n \in S : n <= m

JobStatuses == {"processing", "done", "error"}

\* C11: routing to a responder label the classifier returned runs the
\* responder of that name, for each of the six responder labels of Router.
C11_LabelsAreNodes ==
    [][(Took("supervisor:classify") /\ response'[1] \in Responders) =>
            pc' = response'[1]]_vars

\* C12: when the caller's request carries a context of type
\* personal_health_summary, the supervisor's first step sees that context
\* and is the flow initialization.
C12_ContextReachesSupervisor ==
    (TypeIsPHS(request.context) /\ trace # <<>>) =>
        (context = request.context /\ trace[1] = "supervisor:init")

\* C13: in a turn whose context is absent or has no type or another type,
\* flow, queue and results are never set and every supervisor step is a
\* classification step.
C13_OnlyPhsStartsFlow ==
    ~TypeIsPHS(context) =>
        /\ flow = None /\ queue = None /\ results = None
        /\ \A i \in 1..Len(trace) :
            trace[i] \in SupervisorSteps => trace[i] = "supervisor:classify"

C13_Witness ==
    /\ context = Some({<<"type", "journal">>})
    /\ pc = END
    /\ Count(trace, "supervisor:classify") >= 2

\* C14: the supervisor's dispatch to the head of a non-empty queue routes
\* to that head and changes nothing: queue, flow, results, the log, next
\* and context are as before.
C14_DispatchFrame ==
    [][Took("supervisor:dispatch") =>
            /\ pc' = Head(queue[1])
            /\ UNCHANGED <<messages, flow, queue, results, next, context>>]_vars

C14_Witness ==
    /\ trace # <<>>
    /\ Last(trace) = "supervisor:dispatch"
    /\ pc = "exercise_planer_agent"
    /\ queue = Some(<<"exercise_planer_agent">>)

\* C15: after every supervisor step that routed to a responder or ended the
\* turn on a valid decision, next is the target of that step.
C15_NextIsTarget ==
    [][(pc = "supervisor" /\ Len(trace') > Len(trace)
            /\ pc' \in Responders \cup {END}
            /\ (response' = None \/ response'[1] \in Labels)) =>
            next' = Some(pc')]_vars

\* C16: when the classifier returns FINISH the supervisor step ends the
\* turn, appends nothing to the log and leaves flow, queue, results and
\* context as they were.
C16_FinishFrame ==
    [][(Took("supervisor:classify") /\ response' = Some("FINISH")) =>
            /\ pc' = END
            /\ UNCHANGED <<messages, flow, queue, results, context>>]_vars

C16_Witness ==
    /\ response = Some("FINISH")
    /\ pc = END
    /\ Len(Invoked) = 1
    /\ Len(messages) = 2

\* C17: in a turn without a personal_health_summary context supervisor
\* steps and responder steps alternate, every supervisor step is one
\* classifier invocation, so the invocations never exceed the responder
\* hops plus one, and equal that number when the turn has ended.
C17_OneClassificationPerHop ==
    ~TypeIsPHS(context) =>
        /\ \A i \in 1..Len(trace) :
            IF i % 2 = 1 THEN trace[i] = "supervisor:classify"
                         ELSE trace[i] \in Responders
        /\ Count(trace, "supervisor:classify") <= Len(Invoked) + 1
        /\ pc = END => Count(trace, "supervisor:classify") = Len(Invoked) + 1

C17_Witness ==
    /\ ~TypeIsPHS(context)
    /\ pc = END
    /\ Len(Invoked) = 2
    /\ Count(trace, "supervisor:classify") = 3

\* C18: no step changes context, so it always is the value the caller
\* supplied.
C18_ContextImmutable ==
    /\ [][context' = context]_vars
    /\ [](context = request.context)

C18_Witness ==
    /\ context = Some({<<"type", PHS>>, <<"steps", "8000">>})
    /\ Invoked = <<"diet_planer_agent", "exercise_planer_agent">>
    /\ pc = END

\* C19: the response of a job that is done, its turn having ended by flow
\* completion or by the classifier's FINISH, is the composed container when
\* the flow completed, and otherwise the content of the last record a
\* responder appended to the log, in every such turn.
C19_DeliveredResponse ==
    \A id \in DOMAIN jobs :
        (jobs[id].status = "done"
            /\ (Count(trace, "supervisor:combine") > 0 \/ response = Some("FINISH"))) =>
            IF Count(trace, "supervisor:combine") > 0
            THEN jobs[id].response = Some(Last(messages).content)
            ELSE /\ ResponderRecords # {}
                 /\ jobs[id].response =
                        Some(messages[MaxOf(ResponderRecords)].content)

\* C20: a job starts in status processing, its status is always one of
\* processing, done, error, it only moves from processing to done or to
\* error, a done or error job never changes again, and a poll for an id
\* that was handed out returns the job's entry.
C20_JobLifecycle ==
    /\ [](\A id \in DOMAIN jobs : jobs[id].status \in JobStatuses)
    /\ [][\A id \in DOMAIN jobs' \ DOMAIN jobs :
            jobs'[id] = [status |-> "processing", response |-> None]]_vars
    /\ [][\A id \in DOMAIN jobs :
            /\ id \in DOMAIN jobs'
            /\ \/ jobs'[id] = jobs[id]
               \/ /\ jobs[id].status = "processing"
                  /\ jobs'[id].status \in {"done", "error"}]_vars
    /\ [][(polled' # polled /\ polled'[1].id \in DOMAIN jobs) =>
            /\ polled'[1].result = jobs[polled'[1].id]
            /\ polled'[1].result.status \in JobStatuses]_vars

C20_Witness ==
    /\ "j1" \in DOMAIN jobs
    /\ jobs["j1"].status = "done"
    /\ polled = Some([id |-> "j1", result |-> jobs["j1"]])

\* C21: under the assumption that every awaited call returns or raises and
\* the scheduled task is run, every job in status processing eventually is
\* in status done or error.
C21_JobTerminates ==
    \A id \in JobIds :
        (id \in DOMAIN jobs /\ jobs[id].status = "processing")
            ~> (id \in DOMAIN jobs /\ jobs[id].status \in {"done", "error"})

C21_Witness ==
    /\ "j1" \in DOMAIN jobs
    /\ jobs["j1"].status = "done"
    /\ Len(Invoked) = MaxJobHops
    /\ pc = "returned"

\* C22: when the classifier call or a graph step raised in the run of a job,
\* the task's next write makes the job's entry the error entry, whose
\* response is the short string "Error: " followed by the exception's text;
\* the entry is never done, and the task returns.
C22_RaiseEndsInError ==
    /\ [][(pc = RAISED /\ job_id # None) =>
            \/ UNCHANGED <<pc, jobs>>
            \/ /\ pc' = "returned"
               /\ jobs' = DictPut(jobs, job_id[1],
                                  [status |-> "error",
                                   response |-> Some(<<"Error: ", "e">>)])]_vars
    /\ []((response = Some(Unavailable) /\ job_id # None) =>
            jobs[job_id[1]].status # "done")
    /\ []((response = Some(Unavailable) /\ pc = "returned") =>
            jobs[job_id[1]].status = "error")

C22_Witness ==
    /\ response = Some(Unavailable)
    /\ pc = "returned"
    /\ Len(Invoked) = 1
    /\ jobs = DictPut(NoJobs, "j1", ErrorJob)

\* the four transition rules of the supervisor, in priority order
RuleBranch(s) ==
    IF TypeIsPHS(s.context) /\ ~TruthyStr(s.flow) THEN "init"
    ELSE IF TruthyStr(s.flow) /\ ~TruthyList(s.queue) THEN "combine"
    ELSE IF TruthyStr(s.flow) /\ TruthyList(s.queue) THEN "dispatch"
    ELSE "classify"

\* the target and the state patch each rule prescribes
RuleCommand(s, label) ==
    CASE RuleBranch(s) = "init" ->
            [goto |-> "diet_planer_agent",
             update |-> [NoUpdate EXCEPT
                            !.flow = Set(Some("phs")),
                            !.queue = Set(Some(<<"exercise_planer_agent">>)),
                            !.results = Set(Some(EmptyDict))]]
      [] RuleBranch(s) = "combine" ->
            [goto |-> END,
             update |-> [NoUpdate EXCEPT
                            !.messages =
                                <<HumanMessage(
                                    <<"<div class=personal-health-summary>",
                                      "<h2>Personal Health Summary</h2>",
                                      "<div class=phs-section>">>
                                    \o DictGet(ResultsOrEmpty(s), "diet_planer_agent", <<>>)
                                    \o <<"</div>", "<div class=phs-section>">>
                                    \o DictGet(ResultsOrEmpty(s), "exercise_planer_agent", <<>>)
                                    \o <<"</div>", "</div>">>,
                                    Some("supervisor"))>>,
                            !.flow = Set(None),
                            !.queue = Set(None),
                            !.results = Set(None)]]
      [] RuleBranch(s) = "dispatch" ->
            [goto |-> Head(s.queue[1]), update |-> NoUpdate]
      [] OTHER ->
            LET target == IF label = "FINISH" THEN END ELSE label
            IN  [goto |-> target,
                 update |-> [NoUpdate EXCEPT !.next = Set(Some(target))]]

\* the branch supervisor() takes is the branch the rules select
BranchAgrees == pc = "supervisor" => Branch(state) = RuleBranch(state)

\* C26: at every state of a turn in which the supervisor is about to run,
\* the branch it takes is the one the four transition rules select, and the
\* target and state patch it returns are the ones that rule prescribes,
\* whatever label of Router the classifier returns.
C26_DecisionRefinesRules ==
    /\ BranchAgrees
    /\ pc = "supervisor" =>
            \A label \in Labels :
                supervisor(state, label) = RuleCommand(state, label)

\* the responders that have appended a record to the log
Completed == {messages[i].name[1] : i \in ResponderRecords}

\* C27: when the diet or the exercise responder returns while flow is "phs",
\* it appends one record under its name, results[its name] is the content
\* of that record, and the queue is popped exactly when the responder is
\* its head: after diet the queue is [exercise_planer_agent], after
\* exercise it is empty.
C27_StoreAndPop ==
    [][(pc \in {"diet_planer_agent", "exercise_planer_agent"}
            /\ flow = Some("phs") /\ pc' = "supervisor") =>
            /\ Len(messages') = Len(messages) + 1
            /\ Last(messages').name = Some(pc)
            /\ results' # None
            /\ pc \in DOMAIN results'[1]
            /\ results'[1][pc] = Last(messages').content
            /\ queue' = Some(IF QueueOrEmpty(state) # <<>>
                                  /\ Head(QueueOrEmpty(state)) = pc
                             THEN Tail(QueueOrEmpty(state))
                             ELSE QueueOrEmpty(state))
            /\ pc = "diet_planer_agent" => queue' = Some(<<"exercise_planer_agent">>)
            /\ pc = "exercise_planer_agent" => queue' = Some(<<>>)]_vars

C27_Witness ==
    /\ pc = "supervisor"
    /\ flow = Some("phs")
    /\ queue = Some(<<>>)
    /\ results # None
    /\ DOMAIN results[1] = {"diet_planer_agent", "exercise_planer_agent"}
    /\ results[1]["diet_planer_agent"] = <<"a">>
    /\ results[1]["exercise_planer_agent"] = <<>>

\* C28: in every state the keys of results are responders that have
\* appended their record since the flow of this turn was initialized, and
\* flow initialization leaves results empty.
C28_ResultsKeys ==
    /\ [](results # None =>
            /\ Count(trace, "supervisor:init") > 0
            /\ DOMAIN results[1] \subseteq Completed)
    /\ [][Took("supervisor:init") => results' = Some(EmptyDict)]_vars

C28_Witness ==
    /\ flow = Some("phs")
    /\ pc = "supervisor"
    /\ results # None
    /\ DOMAIN results[1] = {"diet_planer_agent"}
    /\ Completed = {"diet_planer_agent"}

PhsTrace ==
    <<"supervisor:init", "diet_planer_agent", "supervisor:dispatch",
      "exercise_planer_agent", "supervisor:combine">>

\* C29: a turn whose context has type personal_health_summary, each
\* responder call returning, ends: it reaches END from a supervisor step
\* that found the queue empty, after exactly three supervisor steps and
\* two responder steps, the composed record being the last of the log and
\* flow cleared.  (A responder call that raises ends the run as RAISED.)
C29_PhsTerminates ==
    /\ (IsPHS(state) /\ trace = <<>>) ~>
            (pc = RAISED \/ (pc = END /\ trace = PhsTrace))
    /\ []((IsPHS(state) /\ pc = END) =>
            /\ trace = PhsTrace
            /\ Last(messages).name = Some("supervisor")
            /\ flow = None
            /\ ~TruthyList(queue))
    /\ [][(IsPHS(state) /\ pc' = END /\ pc # END) => ~TruthyList(queue)]_vars

C29_Witness ==
    /\ IsPHS(state)
    /\ pc = END
    /\ trace = PhsTrace
    /\ Last(messages).content = Combined(state)

\* C30: a turn without a personal_health_summary context in which the
\* classifier returned labels of Router has ended only if the label
\* returned at the last supervisor step is FINISH.
C30_EndsOnlyOnFinish ==
    (pc = END /\ ~TypeIsPHS(context) /\ response # None
        /\ response[1] \in Labels) => response = Some("FINISH")

\* C24: no call of get_health_centers (either variant), get_medication_info
\* or get_air_quality ends with an exception: whatever the outcomes of its
\* external calls, the failure of the database client's creation included,
\* the tool returns a list or a dict.
C24_ToolsNeverRaise ==
    (call.ret # None) =>
        /\ call.ret[1].kind = "return"
        /\ call.ret[1].type \in {"list", "dict"}

\* C25: get_medication_info returns the empty dict when the reply holds no
\* matching medication and also when the request fails.
C25_EmptyDictOnFailure ==
    (call.tool = "get_medication_info" /\ call.ret # None
        /\ ~(call.env.http = "ok" /\ call.env.body = "one_result")) =>
        call.ret[1] = ReturnDict({})

\* the job entry of id, None when there is none
JobEntry(id) == IF id \in DOMAIN jobs THEN Some(jobs[id]) ELSE None

\* the responders of a task's run that returned, in order
Returned(s) ==
    [i \in 1..(Len(s.messages) - 1) |-> s.messages[i + 1].name]

\* what a task's run and job entry are when the request runs alone: the log
\* is the request's own message followed by one record per responder of
\* its own trace, the events are the contents its own log went through,
\* flow, queue and results are unset, and the entry is processing until the
\* task returns and then the done entry of its own events or the error
\* entry
Alone(id) ==
    LET s == sessions[id]
        invoked == SelectSeq(s.trace, LAMBDA t : t \in Responders)
    IN  /\ s.flow = None /\ s.queue = None /\ s.results = None
        /\ s.message = TaskMessage(id)
        /\ s.messages # <<>> =>
            /\ s.messages[1] = HumanMessage(TaskMessage(id), None)
            /\ Len(s.messages) <= Len(invoked) + 1
            /\ \A i \in 1..(Len(s.messages) - 1) :
                Returned(s)[i] = Some(invoked[i])
            /\ s.events[1] = TaskMessage(id)
            /\ s.events[Len(s.events)] = s.messages[Len(s.messages)].content
        /\ s.pc = "idle" => JobEntry(id) = None
        /\ s.pc \notin {"idle", "returned"} => JobEntry(id) = Some(ProcessingJob)
        /\ s.pc = "returned" =>
            \/ /\ s.trace # <<>> /\ s.response # Some(Unavailable)
               /\ JobEntry(id) = Some(DoneJob(s.events))
            \/ JobEntry(id) = Some(ErrorJob)

\* C23: with two requests in flight, under every interleaving of their
\* steps, each request's log, flow, queue, results and job entry are what
\* they are when the request runs alone; a step of one task changes neither
\* the other task's run nor the other job's entry, and a job's entry is
\* written only by a step of that job's own task.
C23_Isolation ==
    /\ [](\A id \in TaskIds : Alone(id))
    /\ [][\A id \in TaskIds :
            sessions'[id] # sessions[id] =>
                \A o \in TaskIds \ {id} :
                    /\ sessions'[o] = sessions[o]
                    /\ JobEntry(o)' = JobEntry(o)]_vars
    /\ [][\A id \in TaskIds :
            JobEntry(id)' # JobEntry(id) =>
                /\ sessions[id].pc \in {"idle", END, RAISED}
                /\ sessions'[id].pc \in {"scheduled", "returned"}]_vars

C23_Witness ==
    /\ sessions["j1"].pc = "returned"
    /\ sessions["j2"].pc = "returned"
    /\ jobs["j1"] = DoneJob(<<<<"q1">>, <<"a">>>>)
    /\ jobs["j2"] = DoneJob(<<<<"q2">>, <<"b">>>>)
    /\ sessions["j1"].trace[2] = "medication_agent"
    /\ sessions["j2"].trace[2] = "diet_planer_agent"

\* C31: within one turn one node runs at a time, supervisor steps and
\* responder steps alternate beginning with the supervisor, and while a
\* flow is active the exercise responder is about to run only when the
\* diet responder's record is in the log.
C31_Sequential ==
    /\ pc \in Nodes \cup {END, RAISED}
    /\ \A i \in 1..Len(trace) :
        IF i % 2 = 1 THEN trace[i] \in SupervisorSteps
                     ELSE trace[i] \in Responders
    /\ (pc \in Responders) => (trace # <<>> /\ Last(trace) \in SupervisorSteps)
    /\ (pc = "supervisor" /\ trace # <<>>) => Last(trace) \in Responders
    /\ (TruthyStr(flow) /\ pc = "exercise_planer_agent") =>
            "diet_planer_agent" \in Completed

C31_Witness ==
    /\ TruthyStr(flow)
    /\ pc = "exercise_planer_agent"
    /\ Completed = {"diet_planer_agent"}
    /\ Last(messages).content = <<"b">>

\* C32: every responder step that returns, whichever of the six responders
\* it is and whether or not a flow is active, appends exactly one record to
\* the log, under the responder's own name.
C32_OneRecordOwnName ==
    [][(pc \in Responders /\ Len(trace') > Len(trace) /\ pc' # RAISED) =>
            /\ Len(messages') = Len(messages) + 1
            /\ SubSeq(messages', 1, Len(messages)) = messages
            /\ Last(messages').name = Some(pc)]_vars

C32_Witness ==
    /\ Len(messages) = 4
    /\ messages[2].name = Some("medication_agent")
    /\ messages[3].name = Some("air_quality_checker_agent")
    /\ messages[4].name = Some("exercise_planer_agent")
    /\ flow = None

\* C33: whenever the supervisor is about to take the flow-completion
\* transition, results holds the diet_planer_agent key and the
\* exercise_planer_agent key.
C33_BothResultsAtCompletion ==
    (pc = "supervisor" /\ Branch(state) = "combine") =>
        /\ results # None
        /\ {"diet_planer_agent", "exercise_planer_agent"} \subseteq DOMAIN results[1]

C33_Witness ==
    /\ pc = "supervisor"
    /\ Branch(state) = "combine"
    /\ results = Some([k \in {"diet_planer_agent", "exercise_planer_agent"} |->
                        IF k = "diet_planer_agent" THEN <<"b">> ELSE <<"a">>])

\* C34: a step of the provider-lookup, medication, symptom-checker or
\* air-quality responder leaves flow, queue and results as they were; so
\* does a step of the diet or exercise responder taken while flow is not
\* "phs"; and no responder step changes flow.
C34_ResponderFrame ==
    [][(pc \in Responders) =>
            /\ flow' = flow
            /\ (pc \in PlainResponders \/ flow # Some("phs")) =>
                    UNCHANGED <<flow, queue, results>>]_vars

C34_Witness ==
    /\ Invoked = <<"diet_planer_agent", "exercise_planer_agent",
                   "health_centers_agent">>
    /\ pc = "supervisor"
    /\ flow = None /\ queue = None /\ results = None

\* C35: when a turn whose context has type personal_health_summary has
\* ended, its log having begun with one user record, the log holds exactly
\* four records: the user record, the diet responder's, the exercise
\* responder's and the supervisor's composed record, in this order.
C35_FourRecords ==
    (IsPHS(state) /\ pc = END) =>
        /\ Len(messages) = 4
        /\ messages[1] = HumanMessage(<<"q">>, None)
        /\ messages[2].name = Some("diet_planer_agent")
        /\ messages[3].name = Some("exercise_planer_agent")
        /\ messages[4] = HumanMessage(Combined(state), Some("supervisor"))

C35_Witness ==
    /\ IsPHS(state)
    /\ pc = END
    /\ Len(messages) = 4
    /\ messages[2] = HumanMessage(<<"b">>, Some("diet_planer_agent"))
    /\ messages[3] = HumanMessage(<<"b">>, Some("exercise_planer_agent"))

====
